---- MODULE Spec2Model ----
(***************************************************************************)
(* stan::services::optimize::optimize (optimize.hpp): the dispatcher that  *)
(* emits the schema header and then runs Newton's method in place, or      *)
(* configures a BFGS / L-BFGS stepper and hands it to do_bfgs_optimize.    *)
(*                                                                         *)
(* One run of optimize is modelled as a sequential program; pc is the      *)
(* position in the function body.  trace is a history variable: every      *)
(* call the run makes on a sink (output, info, err), on the model, on the  *)
(* stepper and on the interrupt hook, in program order.                    *)
(*                                                                         *)
(* A double is a record [k, v]: k = "fin" with v the value in tenths,      *)
(* k = "inf" with v the sign, or k = "nan".  Arithmetic on finite values   *)
(* is exact; the special values follow IEEE 754.                           *)
(***************************************************************************)
EXTENDS Integers, Sequences, FiniteSets, TLC

\* ------------------------------------------------------------------ bounds
MaxDim == 2
MaxIter == 2
MaxSteps == 6

\* ----------------------------------------------------------------- doubles
Fin(n) == [k |-> "fin", v |-> n]
NaN == [k |-> "nan", v |-> 0]
PosInf == [k |-> "inf", v |-> 1]
NegInf == [k |-> "inf", v |-> -1]

\* a double holding the whole number n (values are kept in tenths)
Whole(n) == Fin(10 * n)

IsFin(a) == a.k = "fin"
IsNaN(a) == a.k = "nan"
IsInf(a) == a.k = "inf"

\* unary minus
DoubleNeg(a) == [k |-> a.k, v |-> 0 - a.v]

\* a - b
DoubleSub(a, b) ==
  IF IsNaN(a) \/ IsNaN(b) THEN NaN
  ELSE IF IsFin(a) /\ IsFin(b) THEN Fin(a.v - b.v)
  ELSE IF IsInf(a) /\ IsInf(b) THEN (IF a.v = b.v THEN NaN ELSE a)
  ELSE IF IsInf(a) THEN a
  ELSE DoubleNeg(b)

\* a * 1.1, exact on the whole numbers (multiples of ten tenths) that an
\* initial log density takes here
TimesOnePointOne(a) ==
  IF IsFin(a) THEN Fin(a.v + (a.v \div 10)) ELSE a

\* std::fabs(a)
fabs(a) ==
  IF IsNaN(a) THEN NaN
  ELSE IF a.v < 0 THEN DoubleNeg(a) ELSE a

\* the reciprocal of the tolerance 1e-8
TolInverse == 100000000

\* num / den > 1e-8, for den = fabs(...) (never negative).  A NaN operand
\* or a NaN quotient (0/0, inf/inf) compares false.
QuotientExceedsTol(num, den) ==
  IF IsNaN(num) \/ IsNaN(den) THEN FALSE
  ELSE IF IsInf(den) THEN FALSE
  ELSE IF IsInf(num) THEN num.v > 0
  ELSE IF den.v = 0 THEN num.v > 0
  ELSE num.v > 0 /\ (den.v \div num.v) < TolInverse

\* a <= b on doubles (false when either is NaN)
DoubleLeq(a, b) ==
  IF IsNaN(a) \/ IsNaN(b) THEN FALSE
  ELSE IF IsFin(a) /\ IsFin(b) THEN a.v <= b.v
  ELSE IF IsInf(a) THEN (a.v < 0 \/ (IsInf(b) /\ b.v > 0))
  ELSE b.v > 0

\* ------------------------------------------------------------------ inputs
\* the initial points a caller may pass: one vector of each length
\* 0 .. MaxDim, its elements 0, 1, ...
ParamVectors == {[i \in 1 .. n |-> i - 1] : n \in 0 .. MaxDim}

\* the refresh values a caller may pass: no progress lines, or one every
\* second iteration
RefreshValues == {0, 2}

\* the values of the "algorithm" argument; the last two name no algorithm
AlgorithmValues == {"newton", "bfgs", "lbfgs", "simplex", "NEWTON"}

\* the models a run is given: any model, whose log density and Newton
\* steps produce arbitrary values, and the one-dimensional quadratic
\* logDensity(x) = -(x - QuadCentre)^2
Models == {[kind |-> "arbitrary"], [kind |-> "quadratic"]}

QuadCentre == 3

QuadLogDensity(x) == Whole(0 - ((x - QuadCentre) * (x - QuadCentre)))

\* the argument tree under "algorithm": one sub-tree per quasi-Newton method
AlgoArgs ==
  [bfgs  |-> [init_alpha |-> 11, tol_obj |-> 12, tol_rel_obj |-> 13,
              tol_grad |-> 14, tol_rel_grad |-> 15, tol_param |-> 16],
   lbfgs |-> [init_alpha |-> 21, tol_obj |-> 22, tol_rel_obj |-> 23,
              tol_grad |-> 24, tol_rel_grad |-> 25, tol_param |-> 26,
              history_size |-> 27]]

\* ------------------------------------------------------------------- state
VARIABLES
  cont_params,      \* the caller's initial point (Eigen::VectorXd&)
  model,            \* the model the run is given
  algorithm,        \* algo->value()
  num_iterations,   \* optimize_args->arg("iter")
  save_iterations,  \* optimize_args->arg("save_iterations")
  refresh,          \* the refresh argument
  cont_vector,      \* the run's private copy of the parameters
  lp,               \* the current log density
  lastlp,           \* the previous log density (newton)
  m,                \* the number of Newton steps done
  msg,              \* the stringstream msg: the texts it holds
  stepper,          \* the BFGSLineSearch object, or NoStepper
  qn_ret,           \* what do_bfgs_optimize returned, or "none"
  ret,              \* what optimize returned, or "none"
  pc,               \* the position in optimize
  trace             \* history: the calls made so far, in order

vars == <<cont_params, model, algorithm, num_iterations, save_iterations,
          refresh, cont_vector, lp, lastlp, m, msg, stepper, qn_ret, ret,
          pc, trace>>

inputs == <<cont_params, model, algorithm, num_iterations, save_iterations,
            refresh>>

NoStepper == [update |-> "none"]

\* ------------------------------------------------------------------ events
\* the number of events of one kind in a sequence of events
Count(seq, kind) == Cardinality({i \in DOMAIN seq : seq[i].kind = kind})

\* the events of one sink
OnSink(seq, sink) == SelectSeq(seq, LAMBDA e : e.sink = sink)

ParamName(i) == [base |-> "theta", index |-> i]

\* faulty variant: the synthetic name is not pushed
HeaderNamesOfModelOnly(n) == [i \in 1 .. n |-> ParamName(i)]

\* names.push_back("lp__"); model.constrained_param_names(names, true, true)
HeaderNames(n) == <<[base |-> "lp__", index |-> 0]>> \o [i \in 1 .. n |-> ParamName(i)]

\* output(names)
HeaderEvent(n) == [sink |-> "output", kind |-> "names", names |-> HeaderNames(n)]

\* services::io::write_iteration(output, model, base_rng, lp, cont_vector,
\* disc_vector)
IterationRecord(value, params) ==
  [sink |-> "output", kind |-> "iteration_record", lp |-> value, params |-> params]

\* faulty variant: the test of save_iterations is inverted
WriteUnlessSaving(save, value, params) ==
  IF save THEN <<>> ELSE <<IterationRecord(value, params)>>

\* if (save_iterations) write_iteration(...)
WriteIfSaving(save, value, params) ==
  IF save THEN <<IterationRecord(value, params)>> ELSE <<>>

\* ------------------------------------------------------------------- start
Init ==
  /\ cont_params \in ParamVectors
  /\ model \in Models
  /\ model.kind = "quadratic" => Len(cont_params) = 1
  /\ algorithm \in AlgorithmValues
  /\ num_iterations \in 1 .. MaxIter
  /\ save_iterations \in BOOLEAN
  /\ refresh \in RefreshValues
  /\ cont_vector = <<>>
  /\ lp = Whole(0)
  /\ lastlp = Whole(0)
  /\ m = 0
  /\ msg = <<>>
  /\ stepper = NoStepper
  /\ qn_ret = "none"
  /\ ret = "none"
  /\ pc = "entry"
  /\ trace = <<>>

\* faulty variant: the copying loop stops one element early, the last
\* element keeps the 0.0 the vector was constructed with
CopyAllButLast(params) ==
  [i \in 1 .. Len(params) |-> IF i < Len(params) THEN params[i] ELSE 0]

\* lines 33-35: std::vector<double> cont_vector(cont_params.size()), filled
\* element by element
CopyOf(params) == [i \in 1 .. Len(params) |-> params[i]]

\* lines 31-55: copy the initial point, read the arguments, emit the header
Start ==
  /\ pc = "entry"
  /\ cont_vector' = CopyOf(cont_params)
  /\ trace' = trace \o <<HeaderEvent(Len(cont_params))>>
  /\ lp' = Whole(0)
  /\ pc' = "dispatch"
  /\ UNCHANGED <<inputs, lastlp, m, msg, stepper, qn_ret, ret>>

\* the three tests of algo->value()
IsNewton(a) == a = "newton"
IsBfgs(a) == a = "bfgs"

\* faulty variant: the last branch is taken as an else
IsAnythingElse(a) == TRUE

IsLbfgs(a) == a = "lbfgs"

\* line 194: no branch was taken
ReturnUsage ==
  /\ pc = "dispatch"
  /\ ~IsNewton(algorithm) /\ ~IsBfgs(algorithm) /\ ~IsLbfgs(algorithm)
  /\ ret' = "USAGE"
  /\ pc' = "done"
  /\ UNCHANGED <<inputs, cont_vector, lp, lastlp, m, msg, stepper, qn_ret, trace>>

\* ------------------------------------------------------------------ newton
\* what model.log_prob<false, false>(cont_vector, disc_vector, &msg) may
\* return normally (any double)
InitLpValues ==
  {Fin(-1000000000), Whole(-20), Whole(0), Whole(20), NegInf, PosInf, NaN}

\* what the model may have written to msg when log_prob returns
ModelTexts == {<<>>, <<"model text">>}

\* the outcomes of the call of log_prob: it throws a std::exception, or it
\* returns a value and leaves some text in msg
LogProbOutcomes(mdl, x) ==
  IF mdl.kind = "quadratic"
    THEN {[threw |-> FALSE, value |-> QuadLogDensity(x[1]), text |-> <<>>]}
    ELSE {[threw |-> TRUE, value |-> NaN, text |-> <<>>]}
         \cup {[threw |-> FALSE, value |-> v, text |-> t] :
                 v \in InitLpValues, t \in ModelTexts}

LogProbEvent(threw) == [sink |-> "model", kind |-> "log_prob", threw |-> threw]

\* services::io::write_error_msg(err, e)
ErrorEvent == [sink |-> "err", kind |-> "error", what |-> "e.what()"]

\* info(msg.str()) for the text of the model
InfoText(text) == [sink |-> "info", kind |-> "text", text |-> text]

\* line 65: if (msg.str().size()) info(msg.str())
FlushText(text) == IF text # <<>> THEN <<InfoText(text)>> ELSE <<>>

\* faulty variant: the handler does not assign lp
CatchBlockKeepsLp(value) ==
  [events |-> <<ErrorEvent>>, lp |-> value]

\* lines 66-69: the handler of the try around log_prob
CatchBlock(value) ==
  [events |-> <<ErrorEvent>>, lp |-> NegInf]

\* lines 73-74: "initial log joint probability = " << lp
InitialMessage(value) == [sink |-> "info", kind |-> "initial", lp |-> value]

\* line 81: double lastlp = lp * 1.1
FirstLastLp(value) == TimesOnePointOne(value)

\* lines 86-87: "(lp - lastlp) / lp > 1e-8: " << (lp - lastlp) / std::fabs(lp)
RatioMessage(value, last) ==
  [sink |-> "info", kind |-> "ratio",
   num |-> DoubleSub(value, last), den |-> fabs(value)]

\* faulty variant: the test is made on the size of the change
LoopConditionOnAbsChange(value, last) ==
  QuotientExceedsTol(fabs(DoubleSub(value, last)), fabs(value))

\* line 89: (lp - lastlp) / std::fabs(lp) > 1e-8
LoopCondition(value, last) ==
  QuotientExceedsTol(DoubleSub(value, last), fabs(value))

\* faulty variant: the loop also stops at the configured iteration count
LoopGoesOnBelowIter(value, last, steps, iter) ==
  LoopCondition(value, last) /\ steps < iter

\* line 89: the while condition reads lp and lastlp, and neither m nor
\* num_iterations
LoopGoesOn(value, last, steps, iter) == LoopCondition(value, last)

\* lines 57-87: the initial evaluation and its messages
NewtonInit ==
  /\ pc = "dispatch"
  /\ IsNewton(algorithm)
  /\ \E o \in LogProbOutcomes(model, cont_vector) :
       LET caught == CatchBlock(lp)
           lp0 == IF o.threw THEN caught.lp ELSE o.value
           evaluated == <<LogProbEvent(o.threw)>>
                        \o (IF o.threw THEN caught.events ELSE FlushText(o.text))
           last0 == FirstLastLp(lp0)
           ratio == RatioMessage(lp0, last0)
       IN /\ lp' = lp0
          /\ lastlp' = last0
          /\ msg' = <<ratio>>
          /\ trace' = trace \o evaluated \o <<InitialMessage(lp0)>>
                        \o WriteIfSaving(save_iterations, lp0, cont_vector)
                        \o <<ratio>>
  /\ m' = 0
  /\ pc' = "newton_loop"
  /\ UNCHANGED <<inputs, cont_vector, stepper, qn_ret, ret>>

\* what newton_step may return for any model (any double)
StepLpValues == {Fin(-999999999), Whole(0), NegInf, PosInf, NaN}

\* a step that gains one whole unit of log density on a finite value
OneBetter(value) == IF IsFin(value) THEN {Fin(value.v + 10)} ELSE {}

\* every parameter moved by one
Shift(x) == [i \in DOMAIN x |-> x[i] + 1]

\* the outcomes of stan::optimization::newton_step(model, cont_vector,
\* disc_vector): it throws, or it returns the new log density and has
\* updated cont_vector in place.  For the quadratic a Newton step is exact.
NewtonStepOutcomes(mdl, x, value) ==
  IF mdl.kind = "quadratic"
    THEN {[threw |-> FALSE, value |-> QuadLogDensity(QuadCentre),
           params |-> <<QuadCentre>>]}
    ELSE {[threw |-> TRUE, value |-> NaN, params |-> x]}
         \cup {[threw |-> FALSE, value |-> v, params |-> Shift(x)] :
                 v \in StepLpValues \cup OneBetter(value)}

NewtonStepEvent(threw) ==
  [sink |-> "model", kind |-> "newton_step", threw |-> threw]

\* faulty variant: lastlp is not updated in the loop
StaleLastLp(value, last) == last

\* line 90: lastlp = lp
SavedLastLp(value, last) == value

\* lines 96-100: "Iteration " << (m + 1) << ". Log joint probability = "
\* << lp << ". Improved by " << (lp - lastlp) << "."
IterationMessage(index, value, last) ==
  [sink |-> "info", kind |-> "iteration", index |-> index, lp |-> value,
   improved |-> DoubleSub(value, last)]

\* the call of the interrupt hook, and whether it asked to cancel
InterruptEvent(index, cancel) ==
  [sink |-> "interrupt", kind |-> "interrupt", index |-> index, cancel |-> cancel]

\* faulty variant: the pass ends with a call of the interrupt hook
NewtonPassEventsWithHook(save, steps, value, last, params) ==
  <<NewtonStepEvent(FALSE), IterationMessage(steps + 1, value, last)>>
    \o WriteIfSaving(save, value, params)
    \o <<InterruptEvent(steps + 1, FALSE)>>

\* faulty variant: the record is written before the message
NewtonPassEventsRecordFirst(save, steps, value, last, params) ==
  <<NewtonStepEvent(FALSE)>>
    \o WriteIfSaving(save, value, params)
    \o <<IterationMessage(steps + 1, value, last)>>

\* lines 91-107: the calls of one pass, in order: newton_step, the message
\* of iteration m + 1, the record if iterations are saved
NewtonPassEvents(save, steps, value, last, params) ==
  <<NewtonStepEvent(FALSE), IterationMessage(steps + 1, value, last)>>
    \o WriteIfSaving(save, value, params)

\* lines 89-108: one pass of the while loop
NewtonStep ==
  /\ pc = "newton_loop"
  /\ LoopGoesOn(lp, lastlp, m, num_iterations)
  /\ m < MaxSteps
  /\ \E o \in NewtonStepOutcomes(model, cont_vector, lp) :
       LET prev == SavedLastLp(lp, lastlp)
           said == IterationMessage(m + 1, o.value, prev)
       IN IF o.threw
            THEN /\ lastlp' = prev
                 /\ trace' = trace \o <<NewtonStepEvent(TRUE)>>
                 /\ pc' = "thrown"
                 /\ UNCHANGED <<lp, cont_vector, msg, m>>
            ELSE /\ lastlp' = prev
                 /\ lp' = o.value
                 /\ cont_vector' = o.params
                 /\ msg' = <<said>>
                 /\ m' = m + 1
                 /\ trace' = trace \o NewtonPassEvents(save_iterations, m, o.value,
                                                        prev, o.params)
                 /\ pc' = "newton_loop"
  /\ UNCHANGED <<inputs, stepper, qn_ret, ret>>

\* faulty variant: no return at the end of the branch, the run falls to line 194
NewtonFallsThrough == "USAGE"

\* line 110: return stan::services::error_codes::OK
NewtonReturnCode == "OK"

\* lines 89, 110: the loop condition is false
NewtonReturn ==
  /\ pc = "newton_loop"
  /\ ~LoopGoesOn(lp, lastlp, m, num_iterations)
  /\ ret' = NewtonReturnCode
  /\ pc' = "done"
  /\ UNCHANGED <<inputs, cont_vector, lp, lastlp, m, msg, stepper, qn_ret, trace>>

\* ------------------------------------------------------------ quasi-newton
\* the BFGSLineSearch object as its constructor leaves it: every setting at
\* its default (written 0), no iteration done
NewStepper(update) ==
  [update |-> update, alpha0 |-> 0, tolAbsF |-> 0, tolRelF |-> 0,
   tolAbsGrad |-> 0, tolRelGrad |-> 0, tolAbsX |-> 0, maxIts |-> 0,
   history_size |-> 0, iter_num |-> 0]

\* what the stepper may have written to msg, the buffer it was given
StepperNotes == {<<>>, <<"stepper note">>}

ConstructEvent(update) ==
  [sink |-> "stepper", kind |-> "construct", update |-> update]

\* lines 123-141: the settings of the bfgs stepper
BfgsSettings(s, args, iter) ==
  [s EXCEPT !.alpha0 = args.bfgs.init_alpha,
            !.tolAbsF = args.bfgs.tol_obj,
            !.tolRelF = args.bfgs.tol_rel_obj,
            !.tolAbsGrad = args.bfgs.tol_grad,
            !.tolRelGrad = args.bfgs.tol_rel_grad,
            !.tolAbsX = args.bfgs.tol_param,
            !.maxIts = iter]

\* faulty variant: one tolerance of the lbfgs stepper is read from the bfgs
\* sub-tree
LbfgsSettingsFromBfgsTree(s, args, iter) ==
  [s EXCEPT !.history_size = args.lbfgs.history_size,
            !.alpha0 = args.lbfgs.init_alpha,
            !.tolAbsF = args.lbfgs.tol_obj,
            !.tolRelF = args.lbfgs.tol_rel_obj,
            !.tolAbsGrad = args.bfgs.tol_grad,
            !.tolRelGrad = args.lbfgs.tol_rel_grad,
            !.tolAbsX = args.lbfgs.tol_param,
            !.maxIts = iter]

\* lines 162-182: the settings of the lbfgs stepper
LbfgsSettings(s, args, iter) ==
  [s EXCEPT !.history_size = args.lbfgs.history_size,
            !.alpha0 = args.lbfgs.init_alpha,
            !.tolAbsF = args.lbfgs.tol_obj,
            !.tolRelF = args.lbfgs.tol_rel_obj,
            !.tolAbsGrad = args.lbfgs.tol_grad,
            !.tolRelGrad = args.lbfgs.tol_rel_grad,
            !.tolAbsX = args.lbfgs.tol_param,
            !.maxIts = iter]

\* lines 114-141: clear msg, construct the stepper on msg, set it up
BfgsSetup ==
  /\ pc = "dispatch"
  /\ ~IsNewton(algorithm)
  /\ IsBfgs(algorithm)
  /\ \E note \in StepperNotes : msg' = note
  /\ stepper' = BfgsSettings(NewStepper("BFGSUpdate_HInv"), AlgoArgs, num_iterations)
  /\ trace' = trace \o <<ConstructEvent("BFGSUpdate_HInv")>>
  /\ pc' = "bfgs_call"
  /\ UNCHANGED <<inputs, cont_vector, lp, lastlp, m, qn_ret, ret>>

\* lines 153-182: the same for lbfgs
LbfgsSetup ==
  /\ pc = "dispatch"
  /\ ~IsNewton(algorithm)
  /\ ~IsBfgs(algorithm)
  /\ IsLbfgs(algorithm)
  /\ \E note \in StepperNotes : msg' = note
  /\ stepper' = LbfgsSettings(NewStepper("LBFGSUpdate"), AlgoArgs, num_iterations)
  /\ trace' = trace \o <<ConstructEvent("LBFGSUpdate")>>
  /\ pc' = "lbfgs_call"
  /\ UNCHANGED <<inputs, cont_vector, lp, lastlp, m, qn_ret, ret>>

\* the codes one advance of the stepper reports
TerminalCodes ==
  {"MAX_ITERATIONS", "GRADIENT_CONVERGED", "OBJECTIVE_CONVERGED",
   "PARAM_CONVERGED", "LINE_SEARCH_FAILED"}

\* the outcomes of one advance: a code, the log density and the parameters
\* (unchanged, or moved to a better point), and maybe text left in msg.
\* The stepper reports MAX_ITERATIONS at its iteration cap and not before.
AdvanceOutcomes(s, x) ==
  LET codes == IF s.iter_num + 1 >= s.maxIts
                 THEN TerminalCodes
                 ELSE {"CONTINUE"} \cup (TerminalCodes \ {"MAX_ITERATIONS"})
      points == {[value |-> Whole(-10), params |-> x],
                 [value |-> Whole(0), params |-> Shift(x)]}
  IN {[code |-> c, value |-> q.value, params |-> q.params, note |-> t] :
        c \in codes, q \in points, t \in StepperNotes}

AdvanceEvent(index, code) ==
  [sink |-> "stepper", kind |-> "advance", index |-> index, code |-> code]

\* the progress line, every refresh iterations; refresh = 0 disables it
ProgressLine(every, index, value) ==
  IF every > 0 /\ index % every = 0
    THEN <<[sink |-> "info", kind |-> "progress", index |-> index, lp |-> value]>>
    ELSE <<>>

\* what an iteration of the driver ends in: cancelled, a terminal code of the
\* stepper handed on as it is, or "none" to go on
DriverStatus(cancel, code) ==
  IF cancel THEN "INTERRUPTED"
  ELSE IF code # "CONTINUE" THEN code
  ELSE "none"

\* do_bfgs_optimize, one iteration of its loop: advance, progress line,
\* iteration record, interrupt hook, stop on a terminal code
DoBfgsOptimize ==
  /\ pc \in {"bfgs_call", "lbfgs_call"}
  /\ qn_ret = "none"
  /\ \E o \in AdvanceOutcomes(stepper, cont_vector), cancel \in BOOLEAN :
       LET n == stepper.iter_num + 1
       IN /\ stepper' = [stepper EXCEPT !.iter_num = n]
          /\ lp' = o.value
          /\ cont_vector' = o.params
          /\ msg' = msg \o o.note
          /\ trace' = trace \o <<AdvanceEvent(n, o.code)>>
                        \o ProgressLine(refresh, n, o.value)
                        \o WriteIfSaving(save_iterations, o.value, o.params)
                        \o <<InterruptEvent(n, cancel)>>
          /\ qn_ret' = DriverStatus(cancel, o.code)
  /\ UNCHANGED <<inputs, lastlp, m, ret, pc>>

\* faulty variant: the driver's result is dropped, the run falls to line 194
ReturnDropped(status) == "USAGE"

\* faulty variant: the branch ends as the newton branch does
ReturnOkAfterRun(status) == "OK"

\* lines 143-147 and 184-188: return do_bfgs_optimize(...)
ReturnOf(status) == status

\* lines 143-147: the bfgs branch returns what the driver returned; the
\* statement after it, line 149 (if (msg.str().size()) info(msg.str())),
\* is never reached
BfgsReturn ==
  /\ pc = "bfgs_call"
  /\ qn_ret # "none"
  /\ ret' = ReturnOf(qn_ret)
  /\ pc' = "done"
  /\ UNCHANGED <<inputs, cont_vector, lp, lastlp, m, msg, stepper, qn_ret, trace>>

\* lines 184-188: the lbfgs branch returns what the driver returned; line
\* 190 after it is never reached
LbfgsReturn ==
  /\ pc = "lbfgs_call"
  /\ qn_ret # "none"
  /\ ret' = ReturnOf(qn_ret)
  /\ pc' = "done"
  /\ UNCHANGED <<inputs, cont_vector, lp, lastlp, m, msg, stepper, qn_ret, trace>>

\* ----------------------------------------------------------- specification
Next ==
  \/ Start
  \/ ReturnUsage
  \/ NewtonInit
  \/ NewtonStep
  \/ NewtonReturn
  \/ BfgsSetup
  \/ LbfgsSetup
  \/ DoBfgsOptimize
  \/ BfgsReturn
  \/ LbfgsReturn

Spec == Init /\ [][Next]_vars

\* -------------------------------------------------------------- properties
\* the events before position i of the trace
Before(i) == SubSeq(trace, 1, i - 1)

\* the initial evaluation of the log density threw
EvalFailed ==
  \E i \in DOMAIN trace : trace[i].kind = "log_prob" /\ trace[i].threw

\* the values the initial diagnostic messages reported
InitialReported ==
  {trace[i].lp : i \in {j \in DOMAIN trace : trace[j].kind = "initial"}}

QuasiNewton == algorithm \in {"bfgs", "lbfgs"}

\* C1: a run whose algorithm is none of newton, bfgs, lbfgs returns USAGE,
\* and all it ever does is emit the schema header: no evaluation of the log
\* density, no Newton step, no stepper, no call of the interrupt hook,
\* nothing on info or err, nothing else on output.
C1_UnknownAlgorithmRunsNothing ==
  algorithm \notin {"newton", "bfgs", "lbfgs"} =>
    /\ pc \in {"entry", "dispatch", "done"}
    /\ ret \in {"none", "USAGE"}
    /\ pc = "done" => ret = "USAGE"
    /\ stepper = NoStepper
    /\ qn_ret = "none"
    /\ m = 0
    /\ Len(trace) <= 1
    /\ \A i \in DOMAIN trace : trace[i].sink = "output" /\ trace[i].kind = "names"

C1_Witness ==
  /\ algorithm = "simplex"
  /\ pc = "done"
  /\ ret = "USAGE"
  /\ Len(trace) = 1

\* C2: in every run, whatever the algorithm and save_iterations, once the
\* run is past its entry the first event of all is the schema header on the
\* output sink, its first name is lp__ and the others are the model's
\* parameter names, and it is the only header of the run.
C2_HeaderOnceAndFirst ==
  /\ pc = "entry" => trace = <<>>
  /\ pc # "entry" =>
       /\ Len(trace) >= 1
       /\ trace[1].sink = "output"
       /\ trace[1].kind = "names"
       /\ Len(trace[1].names) = Len(cont_params) + 1
       /\ trace[1].names[1].base = "lp__"
       /\ \A j \in 2 .. Len(trace[1].names) :
            trace[1].names[j] = [base |-> "theta", index |-> j - 1]
       /\ Count(trace, "names") = 1

C2_Witness ==
  /\ algorithm = "lbfgs"
  /\ save_iterations
  /\ pc = "done"
  /\ Len(cont_params) = 2
  /\ Count(trace, "advance") = 2
  /\ Count(trace, "names") = 1

\* C3 (as claimed): in a newton run whose initial log density is any finite
\* value, the first test of the loop condition passes, so the run has done
\* at least one Newton step when it returns.
C3_FirstTestForcesAStep ==
  (IsNewton(algorithm) /\ ~EvalFailed /\ \E v \in InitialReported : IsFin(v)) =>
    /\ (pc = "newton_loop" /\ m = 0) => LoopCondition(lp, lastlp)
    /\ pc = "done" => m >= 1

\* C4: in a newton run whose initial evaluation throws, the error is written
\* to err once and nothing else is, the initial message comes after it and
\* reports -infinity, the exception does not leave optimize, and the run
\* goes on to return OK.
C4_InitialFailureRecovered ==
  (IsNewton(algorithm) /\ EvalFailed) =>
    /\ Len(OnSink(trace, "err")) = 1
    /\ Count(trace, "error") = 1
    /\ Count(trace, "log_prob") = 1
    /\ InitialReported = {NegInf}
    /\ Count(trace, "initial") = 1
    /\ \A i, j \in DOMAIN trace :
         (trace[i].kind = "error" /\ trace[j].kind = "initial") => i < j
    /\ pc = "thrown" => Count(trace, "newton_step") >= 1
    /\ (pc = "newton_loop" /\ m = 0) => ENABLED (NewtonStep \/ NewtonReturn)
    /\ pc = "done" => ret = "OK"

C4_Witness ==
  /\ IsNewton(algorithm)
  /\ EvalFailed
  /\ save_iterations
  /\ pc = "done"
  /\ ret = "OK"
  /\ Count(trace, "error") = 1

\* C5 (as claimed): a newton run whose initial evaluation throws has done at
\* least one Newton step when it returns.
C5_StepAfterFailedEvaluation ==
  (IsNewton(algorithm) /\ EvalFailed /\ pc = "done") => m >= 1

\* C6: in a newton run with save_iterations the records are numbered by the
\* steps: a record is emitted when as many steps as records have gone
\* before it (record 0 before any step), each step finds one record more
\* than steps before it, and after m steps there are m + 1 records; without
\* save_iterations no record is emitted.
C6_NewtonRecordIndices ==
  IsNewton(algorithm) =>
    IF save_iterations
      THEN /\ \A i \in DOMAIN trace :
                /\ trace[i].kind = "iteration_record" =>
                     Count(Before(i), "iteration_record")
                       = Count(Before(i), "newton_step")
                /\ trace[i].kind = "newton_step" =>
                     Count(Before(i), "iteration_record")
                       = Count(Before(i), "newton_step") + 1
           /\ pc \in {"newton_loop", "done"} =>
                Count(trace, "iteration_record") = m + 1
      ELSE Count(trace, "iteration_record") = 0

C6_Witness ==
  /\ IsNewton(algorithm)
  /\ save_iterations
  /\ pc = "done"
  /\ m = 3
  /\ Count(trace, "iteration_record") = 4

\* C7: in a bfgs or lbfgs run, when the k-th call of the interrupt hook asks
\* to cancel, k advances have been made, none is made afterwards, and the
\* run returns INTERRUPTED.
C7_InterruptStopsRun ==
  QuasiNewton =>
    \A i \in DOMAIN trace :
      (trace[i].kind = "interrupt" /\ trace[i].cancel) =>
        LET k == Count(Before(i + 1), "interrupt")
        IN /\ Count(Before(i), "advance") = k
           /\ Count(trace, "advance") = k
           /\ Count(trace, "interrupt") = k
           /\ ~ENABLED DoBfgsOptimize
           /\ ret \in {"none", "INTERRUPTED"}
           /\ pc = "done" => ret = "INTERRUPTED"

C7_Witness ==
  /\ algorithm = "bfgs"
  /\ pc = "done"
  /\ ret = "INTERRUPTED"
  /\ Count(trace, "advance") = 2
  /\ \E i \in DOMAIN trace : trace[i].kind = "interrupt" /\ trace[i].cancel

\* the iteration messages of the trace, in order
IterationMessages == SelectSeq(trace, LAMBDA e : e.kind = "iteration")

\* C8: a newton run returns nothing but OK; it returns at the first test of
\* the loop condition that fails: every step but the last left the
\* condition true, the state it returns from leaves it false, and where the
\* condition is false no further step can be taken.
C8_NewtonReturnsOkAtFirstFailedTest ==
  IsNewton(algorithm) =>
    /\ ret \in {"none", "OK"}
    /\ pc = "done" => ret = "OK" /\ ~LoopCondition(lp, lastlp)
    /\ pc = "newton_loop" /\ ~LoopCondition(lp, lastlp) =>
         ENABLED NewtonReturn /\ ~ENABLED NewtonStep
    /\ pc = "newton_loop" /\ LoopCondition(lp, lastlp) => ~ENABLED NewtonReturn
    /\ \A j \in 1 .. Len(IterationMessages) - 1 :
         QuotientExceedsTol(IterationMessages[j].improved,
                            fabs(IterationMessages[j].lp))

C8_Witness ==
  /\ IsNewton(algorithm)
  /\ pc = "done"
  /\ ret = "OK"
  /\ m = 3

\* the code of the last advance of the stepper
LastAdvanceCode ==
  LET last == CHOOSE i \in DOMAIN trace :
                /\ trace[i].kind = "advance"
                /\ \A j \in DOMAIN trace : trace[j].kind = "advance" => j <= i
  IN trace[last].code

Cancelled ==
  \E i \in DOMAIN trace : trace[i].kind = "interrupt" /\ trace[i].cancel

\* C9: a bfgs or lbfgs run returns what the quasi-Newton driver returned,
\* unchanged: when the hook did not cancel, the terminal code of the
\* stepper's last advance.
C9_DriverStatusPassedThrough ==
  (QuasiNewton /\ pc = "done") =>
    /\ qn_ret # "none"
    /\ ret = qn_ret
    /\ ~Cancelled => (ret = LastAdvanceCode /\ ret \in TerminalCodes)

C9_Witness ==
  /\ algorithm = "lbfgs"
  /\ pc = "done"
  /\ ~Cancelled
  /\ ret = "LINE_SEARCH_FAILED"
  /\ Count(trace, "advance") = 2

\* the newton run on logDensity(x) = -(x - 3)^2 from x = 0
QuadraticRun ==
  /\ IsNewton(algorithm)
  /\ model.kind = "quadratic"
  /\ cont_params = <<0>>

\* C10: the newton run on -(x - 3)^2 from x = 0 never throws and never does
\* more than 5 steps, can always go on until it has returned, returns OK
\* after at least one step with parameter 3 and log density 0, and no step
\* of it lowers the log density.
C10_QuadraticConverges ==
  QuadraticRun =>
    /\ m <= 5
    /\ pc # "thrown"
    /\ pc # "done" => ENABLED Next
    /\ pc = "done" =>
         /\ ret = "OK"
         /\ m >= 1
         /\ cont_vector = <<3>>
         /\ lp = Whole(0)
    /\ \A j \in 1 .. Len(IterationMessages) :
         /\ IsFin(IterationMessages[j].improved)
         /\ IterationMessages[j].improved.v >= 0
    /\ (pc \in {"newton_loop", "done"} /\ m >= 1) => DoubleLeq(lastlp, lp)

C10_Witness ==
  /\ QuadraticRun
  /\ pc = "done"
  /\ ret = "OK"
  /\ m = 2
  /\ cont_vector = <<3>>
  /\ lp = Whole(0)

\* the texts forwarded to info from msg, with their positions in the trace
ForwardedAt == {i \in DOMAIN trace : trace[i].kind = "text"}

\* the position of the last advance of the stepper, 0 when there is none
LastAdvanceAt ==
  LET at == {i \in DOMAIN trace : trace[i].kind = "advance"}
  IN IF at = {} THEN 0 ELSE CHOOSE i \in at : \A j \in at : j <= i

\* C11 (as claimed): in a bfgs or lbfgs run, text the stepper left in msg
\* when it was constructed is forwarded to info before the first advance,
\* text in msg when the loop has ended is forwarded to info before optimize
\* returns, and with msg empty nothing is forwarded.
C11_StepperTextForwarded ==
  QuasiNewton =>
    /\ (stepper # NoStepper /\ stepper.iter_num = 0 /\ msg # <<>>) =>
         \E i \in ForwardedAt : trace[i].text = msg
    /\ (pc = "done" /\ msg # <<>>) =>
         \E i \in ForwardedAt : i > LastAdvanceAt /\ trace[i].text = msg
    /\ (pc = "done" /\ msg = <<>>) => ForwardedAt = {}

\* the sub-tree of the argument tree that belongs to the run's algorithm
OwnArgs == IF algorithm = "bfgs" THEN AlgoArgs.bfgs ELSE AlgoArgs.lbfgs

\* C12: in a bfgs or lbfgs run, from the construction of the stepper on (so
\* when the driver starts), each setting of the stepper is the value of the
\* algorithm's own sub-tree: alpha0 = init_alpha, tolAbsF = tol_obj,
\* tolRelF = tol_rel_obj, tolAbsGrad = tol_grad, tolRelGrad = tol_rel_grad,
\* tolAbsX = tol_param, maxIts = iter; the history size is history_size in
\* an lbfgs run and is left as constructed in a bfgs run.
C12_StepperSettingsFromOwnTree ==
  (QuasiNewton /\ stepper # NoStepper) =>
    /\ stepper.update = (IF algorithm = "bfgs" THEN "BFGSUpdate_HInv" ELSE "LBFGSUpdate")
    /\ stepper.alpha0 = OwnArgs.init_alpha
    /\ stepper.tolAbsF = OwnArgs.tol_obj
    /\ stepper.tolRelF = OwnArgs.tol_rel_obj
    /\ stepper.tolAbsGrad = OwnArgs.tol_grad
    /\ stepper.tolRelGrad = OwnArgs.tol_rel_grad
    /\ stepper.tolAbsX = OwnArgs.tol_param
    /\ stepper.maxIts = num_iterations
    /\ stepper.history_size = (IF algorithm = "lbfgs" THEN AlgoArgs.lbfgs.history_size
                                                      ELSE NewStepper("").history_size)

C12_Witness ==
  /\ algorithm = "lbfgs"
  /\ pc = "lbfgs_call"
  /\ stepper.iter_num = 0
  /\ qn_ret = "none"
  /\ stepper.history_size = 27
  /\ stepper.tolAbsGrad = 24
  /\ stepper.maxIts = 2

\* a < b on doubles
DoubleLt(a, b) == DoubleLeq(a, b) /\ a # b

\* the log density after j Newton steps, as the messages reported it
LpAfter(j) ==
  IF j = 0 THEN CHOOSE v \in InitialReported : TRUE
  ELSE IterationMessages[j].lp

\* the calls of newton_step so far
StepsTried == Count(trace, "newton_step")

\* C13: in a newton run the loop goes on exactly while
\* (value - lastValue) / |value| > 1e-8 for the last two log densities; so a
\* step that is followed by another step strictly increased the log density,
\* and a step that did not increase it is the last one: no step follows and
\* the run can only return.
C13_LoopWhileRelativeImprovement ==
  (IsNewton(algorithm) /\ InitialReported # {}) =>
    /\ pc = "newton_loop" =>
         LET prev == IF m = 0 THEN lastlp ELSE LpAfter(m - 1)
             goes == QuotientExceedsTol(DoubleSub(LpAfter(m), prev),
                                        fabs(LpAfter(m)))
         IN /\ lp = LpAfter(m)
            /\ lastlp = prev
            /\ goes => (~ENABLED NewtonReturn /\ (m < MaxSteps => ENABLED NewtonStep))
            /\ ~goes => (ENABLED NewtonReturn /\ ~ENABLED NewtonStep)
    /\ \A j \in 1 .. Len(IterationMessages) :
         /\ StepsTried > j => DoubleLt(LpAfter(j - 1), LpAfter(j))
         /\ DoubleLeq(LpAfter(j), LpAfter(j - 1)) => StepsTried = j

C13_Witness ==
  /\ IsNewton(algorithm)
  /\ pc = "done"
  /\ Len(IterationMessages) = 3
  /\ DoubleLt(LpAfter(1), LpAfter(2))
  /\ DoubleLeq(LpAfter(3), LpAfter(2))

\* C14: in a newton run the configured iter does not bound the steps: with
\* as many steps done as iter says, or more, a true loop condition still
\* leads to another step and not to the return; the run returns only from a
\* state where the loop condition is false; and iter is bound to no stepper.
C14_StepsNotBoundedByIter ==
  IsNewton(algorithm) =>
    /\ (pc = "newton_loop" /\ m >= num_iterations /\ LoopCondition(lp, lastlp)) =>
         /\ ~ENABLED NewtonReturn
         /\ m < MaxSteps => ENABLED NewtonStep
    /\ pc = "done" => ~LoopCondition(lp, lastlp)
    /\ stepper = NoStepper

C14_Witness ==
  /\ IsNewton(algorithm)
  /\ num_iterations = 2
  /\ pc = "newton_loop"
  /\ m = 6
  /\ LoopCondition(lp, lastlp)

\* C15: the interrupt hook is never called in a newton run, however many
\* steps it does; a call of the hook is found only in a bfgs or lbfgs run,
\* inside the quasi-Newton driver.
C15_NoInterruptInNewton ==
  /\ algorithm = "newton" =>
       \A i \in DOMAIN trace :
         trace[i].sink # "interrupt" /\ trace[i].kind # "interrupt"
  /\ Count(trace, "interrupt") > 0 =>
       /\ algorithm \in {"bfgs", "lbfgs"}
       /\ pc \in {"bfgs_call", "lbfgs_call", "done"}
       /\ Count(trace, "interrupt") = Count(trace, "advance")

C15_Witness ==
  /\ algorithm = "newton"
  /\ pc = "done"
  /\ m = 4
  /\ Count(trace, "newton_step") = 4
  /\ Count(trace, "interrupt") = 0

\* the positions of the events of one kind
At(kind) == {i \in DOMAIN trace : trace[i].kind = kind}

\* C16: in a newton run the initial message is emitted once, after the
\* initial evaluation and before the initial record and every step; the
\* k-th step is followed at once by the one message with index k, which
\* carries the new log density and the improvement on the log density
\* before the step, and then by that step's record when iterations are
\* saved; the indices of the messages are 1, 2, 3, ... in order.
C16_NewtonInfoOrder ==
  (IsNewton(algorithm) /\ pc \in {"newton_loop", "thrown", "done"}) =>
    /\ Cardinality(At("initial")) = 1
    /\ Cardinality(At("log_prob")) = 1
    /\ \A e \in At("log_prob"), i \in At("initial") :
         /\ e < i
         /\ \A r \in At("iteration_record") : i < r
         /\ \A t \in At("newton_step") \cup At("iteration") : i < t
         /\ save_iterations =>
              /\ trace[i + 1].kind = "iteration_record"
              /\ trace[i + 1].lp = trace[i].lp
    /\ \A i \in At("newton_step") :
         ~trace[i].threw =>
           LET k == Count(Before(i + 1), "newton_step")
           IN /\ i + 1 \in At("iteration")
              /\ trace[i + 1].sink = "info"
              /\ trace[i + 1].index = k
              /\ trace[i + 1].improved = DoubleSub(trace[i + 1].lp, LpAfter(k - 1))
              /\ Cardinality({j \in At("iteration") : trace[j].index = k}) = 1
              /\ IF save_iterations
                   THEN /\ i + 2 \in At("iteration_record")
                        /\ trace[i + 2].lp = trace[i + 1].lp
                   ELSE At("iteration_record") = {}
              /\ \A t \in At("newton_step") : t > i => t > i + 1
    /\ \A j \in 1 .. Len(IterationMessages) : IterationMessages[j].index = j
    /\ Len(IterationMessages) = m

C16_Witness ==
  /\ IsNewton(algorithm)
  /\ save_iterations
  /\ pc = "done"
  /\ m = 2
  /\ Len(IterationMessages) = 2
  /\ IterationMessages[2].index = 2
  /\ Count(trace, "iteration_record") = 3

\* C17: optimize never writes to cont_params: no step of a run changes it,
\* whatever the algorithm; cont_vector starts as a copy of it, element by
\* element, and keeps its length while the iterates move.
C17_CallerParamsUntouched ==
  /\ [][cont_params' = cont_params]_vars
  /\ [](pc = "dispatch" => cont_vector = cont_params)
  /\ [](pc # "entry" => Len(cont_vector) = Len(cont_params))

C17_Witness ==
  /\ IsNewton(algorithm)
  /\ pc = "done"
  /\ m = 2
  /\ cont_params = <<0, 1>>
  /\ cont_vector = <<2, 3>>

====
